---- MODULE Spec2Model ----
(***************************************************************************)
(* Model of mbes_speed_app.py: the Streamlit page that computes the        *)
(* maximum planned vessel speed of a multibeam survey, its quality checks  *)
(* and the survey-planner aggregates.                                      *)
(*                                                                         *)
(* State: the value of every input widget, and the outcome the page shows  *)
(* after the "Calculate maximum vessel speed" button was pressed.          *)
(* Actions: one per widget (the user changes its value, the script reruns  *)
(* with run_calc = False and shows no result) and Calculate (the rerun     *)
(* with run_calc = True, lines 387-591).                                   *)
(*                                                                         *)
(* Numbers.  Python floats are modelled as decimal floating-point numbers  *)
(* [m, e] standing for m * 10^e, with a signed four-digit mantissa         *)
(* (1000 <= |m| <= 9999, or m = 0) and round-to-nearest after every        *)
(* operation.  The exponent is not bounded, except where Python raises on  *)
(* overflow (the ** operator of compute_tvu).  Angles are held in tenths   *)
(* of a degree and go through math.cos / math.tan by table.  Rounding      *)
(* happens where the doubles round but at four digits instead of          *)
(* sixteen: a value, and a count taken by math.ceil of a quotient, agrees  *)
(* with the double result to the model's precision only.                   *)
(***************************************************************************)
EXTENDS Integers, Sequences, FiniteSets, TLC

\* ------------------------------------------------------------------------
\* Python float arithmetic
\* ------------------------------------------------------------------------
F(m, e) == [m |-> m, e |-> e]

Zero == F(0, 0)

Abs(n) == IF n < 0 THEN -n ELSE n

Sign(n) == IF n < 0 THEN -1 ELSE IF n > 0 THEN 1 ELSE 0

\* Number of decimal digits of n > 0.
RECURSIVE NDigits(_)
NDigits(n) == IF n < 10 THEN 1 ELSE 1 + NDigits(n \div 10)

\* The float nearest to m * 10^e (round half away from zero).
Norm(m, e) ==
    IF m = 0 THEN Zero
    ELSE LET a == Abs(m)
             nd == NDigits(a)
         IN IF nd <= 4
            THEN F(m * 10^(4 - nd), e - (4 - nd))
            ELSE LET k == nd - 4
                     q == (a + (10^k) \div 2) \div (10^k)
                 IN IF q = 10000
                    THEN F(Sign(m) * 1000, e + k + 1)
                    ELSE F(Sign(m) * q, e + k)

\* float(n) for a Python int n.
FromInt(n) == Norm(n, 0)

FNeg(a) == F(-a.m, a.e)

FMul(a, b) == Norm(a.m * b.m, a.e + b.e)

\* a / b for b # 0 (the callers raise ZeroDivisionError before calling it).
FDiv(a, b) ==
    Norm(Sign(a.m) * Sign(b.m) * ((Abs(a.m) * 100000) \div Abs(b.m)),
         a.e - b.e - 5)

\* a + b: the operand of the lower exponent is aligned to the other; when
\* it lies more than five decades below, it is lost in the rounding.
FAdd(a, b) ==
    IF a.m = 0 THEN b
    ELSE IF b.m = 0 THEN a
    ELSE LET hi == IF a.e >= b.e THEN a ELSE b
             lo == IF a.e >= b.e THEN b ELSE a
             d  == hi.e - lo.e
         IN IF d > 5 THEN hi
            ELSE Norm(hi.m * 10^d + lo.m, lo.e)

FSub(a, b) == FAdd(a, FNeg(b))

\* Comparisons are exact: the sign of the unrounded difference.
FCmp(a, b) ==
    IF a.m = 0 THEN -Sign(b.m)
    ELSE IF b.m = 0 THEN Sign(a.m)
    ELSE LET hi == IF a.e >= b.e THEN a ELSE b
             lo == IF a.e >= b.e THEN b ELSE a
             d  == hi.e - lo.e
         IN IF a.e >= b.e
            THEN (IF d > 5 THEN Sign(a.m) ELSE Sign(a.m * 10^d - b.m))
            ELSE (IF d > 5 THEN -Sign(b.m) ELSE Sign(a.m - b.m * 10^d))

FLt(a, b) == FCmp(a, b) < 0

FLe(a, b) == FCmp(a, b) <= 0

\* max(a, b) of Python: the first argument unless the second is greater.
FMax(a, b) == IF FLt(a, b) THEN b ELSE a

\* Largest r with r * r <= n, by bisection on lo..hi.
RECURSIVE ISqrtIn(_, _, _)
ISqrtIn(n, lo, hi) ==
    IF lo >= hi THEN lo
    ELSE LET mid == (lo + hi + 1) \div 2
         IN IF mid * mid <= n THEN ISqrtIn(n, mid, hi)
                              ELSE ISqrtIn(n, lo, mid - 1)

\* math.sqrt(a) for a >= 0.
FSqrt(a) ==
    IF a.m = 0 THEN Zero
    ELSE IF a.e % 2 = 0
         THEN Norm(ISqrtIn(a.m * 10000, 0, 46340), (a.e - 4) \div 2)
         ELSE Norm(ISqrtIn(a.m * 100000, 0, 46340), (a.e - 5) \div 2)

\* math.hypot(a, b): sqrt(a^2 + b^2), which never overflows on the way.
FHypot(a, b) == FSqrt(FAdd(FMul(a, a), FMul(b, b)))

\* math.ceil(a) as a Python int, for |a| < 10^9.
FCeil_floor(a) ==
    IF a.m = 0 THEN 0
    ELSE IF a.e >= 0 THEN a.m * 10^a.e
    ELSE IF -a.e > 9 THEN (IF a.m > 0 THEN 0 ELSE -1)
    ELSE a.m \div (10^(-a.e))

FCeil(a) ==
    IF a.m = 0 THEN 0
    ELSE IF a.e >= 0 THEN a.m * 10^a.e
    ELSE IF -a.e > 9 THEN (IF a.m > 0 THEN 1 ELSE 0)
    ELSE -((-a.m) \div (10^(-a.e)))

\* True when |a| exceeds the largest double, 1.797e308: the result of a
\* Python ** that raises OverflowError.
FOverflows(a) == a.e > 305 \/ (a.e = 305 /\ Abs(a.m) > 1797)

\* Optional values (Python's None): the empty set, or the one value.
None == {}

Some(x) == {x}

Get(o) == CHOOSE x \in o : TRUE

\* ------------------------------------------------------------------------
\* Catalogues and constants (lines 16-108)
\* ------------------------------------------------------------------------
SONAR_DEAD_TIMES ==
    [s \in {"R2Sonic (High Rate)", "Norbit WBMS (High Rate)",
            "Teledyne Reson T20/T50 (Shallow)", "Kongsberg EM2040 (Shallow)",
            "Teledyne/Simrad Shelf MBES", "Kongsberg Deepwater EM302/304",
            "Atlas Hydrosweep (Deepwater)", "Generic Shallow MBES",
            "Generic Deep MBES", "Custom / Other Sonar"} |->
        CASE s = "R2Sonic (High Rate)"              -> Some(F(2000, -5))
          [] s = "Norbit WBMS (High Rate)"          -> Some(F(3000, -5))
          [] s = "Teledyne Reson T20/T50 (Shallow)" -> Some(F(4000, -5))
          [] s = "Kongsberg EM2040 (Shallow)"       -> Some(F(5000, -5))
          [] s = "Teledyne/Simrad Shelf MBES"       -> Some(F(1000, -4))
          [] s = "Kongsberg Deepwater EM302/304"    -> Some(F(1500, -4))
          [] s = "Atlas Hydrosweep (Deepwater)"     -> Some(F(2000, -4))
          [] s = "Generic Shallow MBES"             -> Some(F(5000, -5))
          [] s = "Generic Deep MBES"                -> Some(F(1500, -4))
          [] s = "Custom / Other Sonar"             -> None]

ORDERS ==
    <<"Special Order", "Order 1a", "Order 1b", "Order 2", "Exclusive Order",
      "Custom (set coverage manually)">>

OrderNames == {ORDERS[i] : i \in 1..Len(ORDERS)}

ORDER_COVERAGE ==
    [o \in OrderNames |->
        CASE o = "Exclusive Order"                -> Some(F(2000, -1))
          [] o = "Special Order"                  -> Some(F(1000, -1))
          [] o = "Order 1a"                       -> Some(F(1000, -1))
          [] o = "Order 1b"                       -> Some(F(1000, -1))
          [] o = "Order 2"                        -> Some(F(1000, -1))
          [] o = "Custom (set coverage manually)" -> None]

MIN_SPEED_RATIO == F(5000, -4)

\* ORDER_TVU_AB.get(order_name): the pair <<a, b>>, or None.
ORDER_TVU_AB(o) ==
    CASE o = "Special Order"   -> Some(<<F(2500, -4), F(7500, -6)>>)
      [] o = "Order 1a"        -> Some(<<F(5000, -4), F(1300, -5)>>)
      [] o = "Order 1b"        -> Some(<<F(5000, -4), F(1300, -5)>>)
      [] o = "Order 2"         -> Some(<<F(1000, -3), F(2300, -5)>>)
      [] o = "Exclusive Order" -> Some(<<F(1500, -4), F(7500, -6)>>)
      [] OTHER                 -> None

BOTTOM_TYPE_FACTORS ==
    [b \in {"Baseline S-44 (smooth / low obstruction risk)",
            "Rough / rocky / obstruction-prone (tighten by x0.5)"} |->
        IF b = "Baseline S-44 (smooth / low obstruction risk)"
        THEN F(1000, -3) ELSE F(5000, -4)]

KNOTS_PER_M_S == F(1944, -3)

KM_PER_NM == F(1852, -3)

\* ------------------------------------------------------------------------
\* Helper functions (lines 67-181)
\* ------------------------------------------------------------------------
\* math.cos(math.radians(deg / 2.0)), deg in tenths of a degree.  The cosine
\* of 90 degrees is 6.123e-17 in floating point, not zero.
CosHalf(deg) ==
    CASE deg = 0    -> F(1000, -3)
      [] deg = 15   -> F(9999, -4)
      [] deg = 1200 -> F(5000, -4)
      [] deg = 1800 -> F(6123, -20)
      [] deg = 2000 -> F(-1736, -4)

\* math.tan(math.radians(deg / 2.0)), deg in tenths of a degree.  The tangent
\* of 90 degrees is 1.633e16 in floating point.
TanHalf(deg) ==
    CASE deg = 0    -> Zero
      [] deg = 15   -> F(1309, -5)
      [] deg = 1200 -> F(1732, -3)
      [] deg = 1800 -> F(1633, 13)
      [] deg = 2000 -> F(-5671, -3)

\* s44_cubic_feature_requirement with the 40 m boundary on the wrong side.
s44_cubic_feature_requirement_lt(order_name, depth_m) ==
    IF order_name = "Exclusive Order" THEN Some(F(5000, -4))
    ELSE IF order_name = "Special Order" THEN Some(F(1000, -3))
    ELSE IF order_name = "Order 1a"
         THEN IF FLt(depth_m, F(4000, -2))
              THEN Some(F(2000, -3))
              ELSE Some(FMul(F(1000, -4), depth_m))
    ELSE None

s44_cubic_feature_requirement(order_name, depth_m) ==
    IF order_name = "Exclusive Order" THEN Some(F(5000, -4))
    ELSE IF order_name = "Special Order" THEN Some(F(1000, -3))
    ELSE IF order_name = "Order 1a"
         THEN IF FLe(depth_m, F(4000, -2))
              THEN Some(F(2000, -3))
              ELSE Some(FMul(F(1000, -4), depth_m))
    ELSE None

ping_interval(depth_m, sound_speed_ms, dead_time_s, swath_deg) ==
    LET R      == FDiv(depth_m, CosHalf(swath_deg))
        t_2way == FDiv(FMul(F(2000, -3), R), sound_speed_ms)
    IN FAdd(t_2way, dead_time_s)

along_track_footprint(depth_m, tx_beam_width_deg) ==
    FMul(FMul(F(2000, -3), depth_m), TanHalf(tx_beam_width_deg))

swath_width(depth_m, swath_deg) ==
    FMul(FMul(F(2000, -3), depth_m), TanHalf(swath_deg))

compute_detection_limit(along_step, across_step) ==
    FDiv(FHypot(along_step, across_step), F(4000, -3))

\* (b * depth_m) ** 2 of compute_tvu raises OverflowError when the square
\* exceeds the float range.
compute_tvu_raises(depth_m, order_name) ==
    LET ab == ORDER_TVU_AB(order_name)
    IN /\ ab # None
       /\ LET bd == FMul(Get(ab)[2], depth_m)
          IN FOverflows(FMul(bd, bd))

compute_tvu(depth_m, order_name) ==
    LET ab == ORDER_TVU_AB(order_name)
    IN IF ab = None THEN None
       ELSE LET a  == Get(ab)[1]
                bd == FMul(Get(ab)[2], depth_m)
            IN Some(FSqrt(FAdd(FMul(a, a), FMul(bd, bd))))

\* ------------------------------------------------------------------------
\* Widgets (lines 195-382)
\* ------------------------------------------------------------------------
\* Bound of the model: the number of widget changes in one session.
MaxEdits == 3

\* Values the user enters; each set holds the widget's default.
DepthValues ==
    {Zero, F(1000, -3), F(4000, -2), F(4100, -2), F(1000, -1), F(1000, 157)}

SwathValues == {0, 1200, 1800, 2000}

BeamWidthValues == {0, 15, 2000}

SoundSpeedValues == {Zero, F(1500, 0)}

\* min_value=100.0, max_value=400.0
CoverageValues == {F(1000, -1), F(1100, -1), F(2000, -1), F(4000, -1)}

\* min_value=0.0, max_value=10.0, step=0.5
TurnMarginValues == {Zero, F(5000, -4), F(9500, -3), F(1000, -2)}

\* min_value=0.0
DeadTimeValues == {Zero, F(1500, -4)}

\* min_value=0.40, max_value=1.00, step=0.05
SafetyFactorValues == {F(4000, -4), F(8000, -4), F(1000, -3)}

Modes == {"Speed calculator", "Survey planner"}

AreaLengthValues == {Zero, F(5000, 0)}

AreaWidthValues == {Zero, F(2000, 0), F(5000, 0)}

\* min_value=1.0, max_value=24.0
DailyHoursValues == {F(1000, -3), F(1200, -2)}

PercentValues == {Zero, F(1500, -2), F(2000, -2)}

FuelBurnValues == {Zero, F(1000, -2)}

FuelPriceValues == {Zero, F(1500, -3)}

\* The value every widget holds when it is first rendered.
Defaults ==
    [depth                |-> F(1000, -1),
     swath_deg            |-> 1200,
     beam_width_deg       |-> 15,
     sound_speed          |-> F(1500, 0),
     order_preset         |-> ORDERS[1],
     custom_coverage      |-> F(2000, -1),
     turn_margin          |-> Zero,
     bottom_type          |-> "Baseline S-44 (smooth / low obstruction risk)",
     sonar_choice         |-> "R2Sonic (High Rate)",
     custom_dead_time     |-> F(1500, -4),
     speed_sf             |-> F(8000, -4),
     mode                 |-> "Speed calculator",
     area_length_m        |-> F(5000, 0),
     daily_hours          |-> F(1200, -2),
     area_width_m         |-> F(2000, 0),
     weather_downtime_pct |-> F(2000, -2),
     overhead_pct         |-> F(1500, -2),
     fuel_burn_lph        |-> Zero,
     fuel_price           |-> Zero]

\* coverage_pct_user (lines 212-228): the preset of the order, or the value
\* of the coverage widget for the custom order.
coverage_pct_user(in) ==
    LET preset_cov == ORDER_COVERAGE[in.order_preset]
    IN IF preset_cov = None THEN in.custom_coverage ELSE Get(preset_cov)

\* effective_coverage_pct without the floor at 100 %.
effective_coverage_pct_unclamped(in) ==
    FSub(coverage_pct_user(in), in.turn_margin)

\* effective_coverage_pct (line 242)
effective_coverage_pct(in) ==
    FMax(F(1000, -1), FSub(coverage_pct_user(in), in.turn_margin))

\* dead_time (lines 275-289): the preset of the sonar, or the widget's value.
dead_time(in) ==
    LET preset_dt == SONAR_DEAD_TIMES[in.sonar_choice]
    IN IF preset_dt # None THEN Get(preset_dt) ELSE in.custom_dead_time

\* The survey-planner inputs are None outside the planner mode
\* (lines 320-375).
PlannerInput(in, v) == IF in.mode = "Survey planner" THEN Some(v) ELSE None

\* ------------------------------------------------------------------------
\* The calculation (lines 387-591)
\* ------------------------------------------------------------------------
\* What the page shows: the outcome, and the reported values (None for a
\* value that is not reported).
Shown(outcome, eff, vals) ==
    [outcome |-> outcome, effective_coverage_pct |-> eff] @@ vals @@
    [f \in {"C_eff", "T", "L", "W", "along_step", "speed_ms", "speed_kts",
            "v_opt_ms", "v_opt_knots", "v_min_ms", "v_min_knots",
            "line_spacing", "overlap_pct", "det_req", "det_req_eff",
            "det_limit", "tvu_val", "n_lines", "total_track_km",
            "survey_hours", "survey_hours_eff", "survey_hours_weather",
            "survey_days", "fuel_l", "fuel_cost"} |-> None] @@
    [detection |-> "none"]

\* The page before any calculation (run_calc = False).
NoResult(in) == Shown("none", effective_coverage_pct(in), <<>>)

\* Lines 564-582: the banner of the detection check.
DetectionBanner(det_req, det_limit) ==
    IF det_req # None /\ det_limit # None
    THEN IF FLe(Get(det_limit), Get(det_req)) THEN "pass" ELSE "warning"
    ELSE "not_applicable"

\* FuelEstimate with the price test outside the burn-rate test: a cost is
\* computed from the price alone.
FuelEstimate_price_alone(fuel_burn_lph, fuel_price, survey_hours_weather) ==
    LET fuel_l == IF fuel_burn_lph.m # 0 /\ FLt(Zero, fuel_burn_lph)
                  THEN Some(FMul(fuel_burn_lph, survey_hours_weather))
                  ELSE None
        fuel_cost == IF fuel_price.m # 0 /\ FLt(Zero, fuel_price)
                     THEN Some(FMul(FMul(fuel_burn_lph, survey_hours_weather),
                                    fuel_price))
                     ELSE None
    IN <<fuel_l, fuel_cost>>

\* Lines 536-542: the optional fuel estimate, <<fuel_l, fuel_cost>>.
FuelEstimate(fuel_burn_lph, fuel_price, survey_hours_weather) ==
    IF fuel_burn_lph.m # 0 /\ FLt(Zero, fuel_burn_lph)
    THEN LET fuel_l == FMul(fuel_burn_lph, survey_hours_weather)
         IN IF fuel_price.m # 0 /\ FLt(Zero, fuel_price)
            THEN <<Some(fuel_l), Some(FMul(fuel_l, fuel_price))>>
            ELSE <<Some(fuel_l), None>>
    ELSE <<None, None>>

Calc(in) ==
    LET eff   == effective_coverage_pct(in)
        C_eff == FDiv(eff, F(1000, -1))
        bottom_type_factor == BOTTOM_TYPE_FACTORS[in.bottom_type]
        area_length_m        == PlannerInput(in, in.area_length_m)
        area_width_m         == PlannerInput(in, in.area_width_m)
        overhead_pct         == PlannerInput(in, in.overhead_pct)
        daily_hours          == PlannerInput(in, in.daily_hours)
        weather_downtime_pct == PlannerInput(in, in.weather_downtime_pct)
        fuel_burn_lph        == PlannerInput(in, in.fuel_burn_lph)
        \* core geometry and timing
        T == ping_interval(in.depth, in.sound_speed, dead_time(in),
                           in.swath_deg)
        L == along_track_footprint(in.depth, in.beam_width_deg)
        W == swath_width(in.depth, in.swath_deg)
        advance_fraction == FDiv(F(1000, -3), C_eff)
        along_step  == FMul(advance_fraction, L)
        speed_ms    == FDiv(along_step, T)
        speed_kts   == FMul(speed_ms, KNOTS_PER_M_S)
        v_opt_ms    == FMul(speed_ms, in.speed_sf)
        v_opt_knots == FMul(speed_kts, in.speed_sf)
        v_min_ms    == FMul(v_opt_ms, MIN_SPEED_RATIO)
        v_min_knots == FMul(v_opt_knots, MIN_SPEED_RATIO)
        line_spacing == FDiv(W, C_eff)
        overlap_frac == FMax(Zero, FSub(F(1000, -3), FDiv(line_spacing, W)))
        overlap_pct  == FMul(overlap_frac, F(1000, -1))
        \* feature detection and TVU
        det_req     == s44_cubic_feature_requirement(in.order_preset, in.depth)
        det_req_eff == IF det_req # None
                       THEN Some(FMul(Get(det_req), bottom_type_factor))
                       ELSE None
        det_limit   == IF det_req # None
                       THEN Some(compute_detection_limit(along_step,
                                                         line_spacing))
                       ELSE None
        tvu_val     == compute_tvu(in.depth, in.order_preset)
        \* what both modes report
        speed_vals ==
            [C_eff |-> Some(C_eff), T |-> Some(T), L |-> Some(L),
             W |-> Some(W), along_step |-> Some(along_step),
             speed_ms |-> Some(speed_ms), speed_kts |-> Some(speed_kts),
             v_opt_ms |-> Some(v_opt_ms), v_opt_knots |-> Some(v_opt_knots),
             v_min_ms |-> Some(v_min_ms), v_min_knots |-> Some(v_min_knots),
             line_spacing |-> Some(line_spacing),
             overlap_pct |-> Some(overlap_pct),
             det_req |-> det_req, det_req_eff |-> det_req_eff,
             det_limit |-> det_limit, tvu_val |-> tvu_val,
             detection |-> DetectionBanner(det_req, det_limit)]
        \* survey planner
        n_lines == LET c == FCeil(FDiv(Get(area_width_m), line_spacing))
                   IN IF c > 1 THEN c ELSE 1
        line_length_km == FDiv(Get(area_length_m), F(1000, 0))
        total_track_km == FMul(FromInt(n_lines), line_length_km)
        survey_hours   == FDiv(total_track_km, FMul(speed_kts, KM_PER_NM))
        survey_hours_eff ==
            FMul(survey_hours,
                 FAdd(F(1000, -3), FDiv(Get(overhead_pct), F(1000, -1))))
        survey_hours_weather ==
            FMul(survey_hours_eff,
                 FAdd(F(1000, -3), FDiv(Get(weather_downtime_pct),
                                        F(1000, -1))))
        survey_days == FDiv(survey_hours_weather, Get(daily_hours))
        fuel == FuelEstimate(Get(fuel_burn_lph), in.fuel_price,
                             survey_hours_weather)
        planner_vals ==
            [n_lines |-> Some(n_lines),
             total_track_km |-> Some(total_track_km),
             survey_hours |-> Some(survey_hours),
             survey_hours_eff |-> Some(survey_hours_eff),
             survey_hours_weather |-> Some(survey_hours_weather),
             survey_days |-> Some(survey_days),
             fuel_l |-> fuel[1], fuel_cost |-> fuel[2]]
    IN  \* sanity checks
        IF FLe(in.depth, Zero) \/ FLe(in.sound_speed, Zero)
        THEN Shown("error_inputs", eff, <<>>)
        ELSE IF FLt(eff, F(1000, -1))
        THEN Shown("error_coverage", eff, <<>>)
        \* along_step / T and line_spacing / W raise ZeroDivisionError,
        \* compute_tvu raises OverflowError: the except clause reports them
        ELSE IF T.m = 0 \/ W.m = 0
                \/ compute_tvu_raises(in.depth, in.order_preset)
        THEN Shown("error_exception", eff, <<>>)
        ELSE IF in.mode = "Speed calculator"
        THEN Shown("success", eff, speed_vals)
        ELSE IF \/ area_length_m = None \/ area_width_m = None
                \/ overhead_pct = None \/ daily_hours = None
                \/ weather_downtime_pct = None
        THEN Shown("error_missing", eff, <<>>)
        ELSE IF FLe(speed_kts, Zero)
        THEN Shown("error_speed", eff, <<>>)
        ELSE Shown("success", eff, planner_vals @@ speed_vals)

\* ------------------------------------------------------------------------
\* The session
\* ------------------------------------------------------------------------
VARIABLES widgets, result, edits

vars == <<widgets, result, edits>>

Init ==
    /\ widgets = Defaults
    /\ result = NoResult(Defaults)
    /\ edits = 0

\* A widget changes: the script reruns with run_calc = False and shows the
\* sidebar only.  A widget that is not rendered in the rerun loses its state
\* and holds its default when it is rendered again.
Rerun(w) ==
    LET noCov == IF ORDER_COVERAGE[w.order_preset] # None
                 THEN [w EXCEPT !.custom_coverage = Defaults.custom_coverage]
                 ELSE w
        noDt  == IF SONAR_DEAD_TIMES[noCov.sonar_choice] # None
                 THEN [noCov EXCEPT
                          !.custom_dead_time = Defaults.custom_dead_time]
                 ELSE noCov
    IN IF noDt.mode = "Survey planner" THEN noDt
       ELSE [noDt EXCEPT
                !.area_length_m = Defaults.area_length_m,
                !.daily_hours = Defaults.daily_hours,
                !.area_width_m = Defaults.area_width_m,
                !.weather_downtime_pct = Defaults.weather_downtime_pct,
                !.overhead_pct = Defaults.overhead_pct,
                !.fuel_burn_lph = Defaults.fuel_burn_lph]

Edit(w) ==
    /\ edits < MaxEdits
    /\ w # widgets
    /\ widgets' = Rerun(w)
    /\ result' = NoResult(Rerun(w))
    /\ edits' = edits + 1

SetDepth == \E v \in DepthValues : Edit([widgets EXCEPT !.depth = v])

SetSwath == \E v \in SwathValues : Edit([widgets EXCEPT !.swath_deg = v])

SetBeamWidth ==
    \E v \in BeamWidthValues : Edit([widgets EXCEPT !.beam_width_deg = v])

SetSoundSpeed ==
    \E v \in SoundSpeedValues : Edit([widgets EXCEPT !.sound_speed = v])

SetOrder == \E v \in OrderNames : Edit([widgets EXCEPT !.order_preset = v])

SetCoverage ==
    /\ ORDER_COVERAGE[widgets.order_preset] = None
    /\ \E v \in CoverageValues : Edit([widgets EXCEPT !.custom_coverage = v])

SetTurnMargin ==
    \E v \in TurnMarginValues : Edit([widgets EXCEPT !.turn_margin = v])

SetBottomType ==
    \E v \in DOMAIN BOTTOM_TYPE_FACTORS :
        Edit([widgets EXCEPT !.bottom_type = v])

SetSonar ==
    \E v \in DOMAIN SONAR_DEAD_TIMES :
        Edit([widgets EXCEPT !.sonar_choice = v])

SetDeadTime ==
    /\ SONAR_DEAD_TIMES[widgets.sonar_choice] = None
    /\ \E v \in DeadTimeValues : Edit([widgets EXCEPT !.custom_dead_time = v])

SetSafetyFactor ==
    \E v \in SafetyFactorValues : Edit([widgets EXCEPT !.speed_sf = v])

SetMode == \E v \in Modes : Edit([widgets EXCEPT !.mode = v])

SetAreaLength ==
    /\ widgets.mode = "Survey planner"
    /\ \E v \in AreaLengthValues : Edit([widgets EXCEPT !.area_length_m = v])

SetAreaWidth ==
    /\ widgets.mode = "Survey planner"
    /\ \E v \in AreaWidthValues : Edit([widgets EXCEPT !.area_width_m = v])

SetDailyHours ==
    /\ widgets.mode = "Survey planner"
    /\ \E v \in DailyHoursValues : Edit([widgets EXCEPT !.daily_hours = v])

SetWeatherDowntime ==
    /\ widgets.mode = "Survey planner"
    /\ \E v \in PercentValues :
          Edit([widgets EXCEPT !.weather_downtime_pct = v])

SetOverhead ==
    /\ widgets.mode = "Survey planner"
    /\ \E v \in PercentValues : Edit([widgets EXCEPT !.overhead_pct = v])

SetFuelBurn ==
    /\ widgets.mode = "Survey planner"
    /\ \E v \in FuelBurnValues : Edit([widgets EXCEPT !.fuel_burn_lph = v])

SetFuelPrice ==
    \E v \in FuelPriceValues : Edit([widgets EXCEPT !.fuel_price = v])

\* The button: the script reruns with run_calc = True.
Calculate ==
    /\ result.outcome = "none"
    /\ result' = Calc(widgets)
    /\ UNCHANGED <<widgets, edits>>

Next ==
    \/ SetDepth \/ SetSwath \/ SetBeamWidth \/ SetSoundSpeed
    \/ SetOrder \/ SetCoverage \/ SetTurnMargin \/ SetBottomType
    \/ SetSonar \/ SetDeadTime \/ SetSafetyFactor \/ SetMode
    \/ SetAreaLength \/ SetAreaWidth \/ SetDailyHours
    \/ SetWeatherDowntime \/ SetOverhead \/ SetFuelBurn \/ SetFuelPrice
    \/ Calculate

Spec == Init /\ [][Next]_vars

\* ------------------------------------------------------------------------
\* Properties
\* ------------------------------------------------------------------------
Calculated == result.outcome # "none"

Succeeded == result.outcome = "success"

Errors ==
    {"error_inputs", "error_coverage", "error_exception", "error_missing",
     "error_speed"}

Hundred == F(1000, -1)

\* The requested coverage less the turning margin.
RequestedLessMargin ==
    FSub(coverage_pct_user(widgets), widgets.turn_margin)

\* C1: in every calculation the effective coverage is
\* max(100, C_req - margin) for a margin in 0..10, it is at least 100
\* whenever a speed, line spacing or overlap is reported, and it is the
\* coverage the along-track step and the line spacing are computed from.
C1_EffectiveCoverageClamped ==
    Calculated =>
        /\ FLe(Zero, widgets.turn_margin)
        /\ FLe(widgets.turn_margin, F(1000, -2))
        /\ FLe(Hundred, RequestedLessMargin)
              => result.effective_coverage_pct = RequestedLessMargin
        /\ FLt(RequestedLessMargin, Hundred)
              => result.effective_coverage_pct = Hundred
        /\ Succeeded =>
              /\ FLe(Hundred, result.effective_coverage_pct)
              /\ result.C_eff
                    = Some(FDiv(result.effective_coverage_pct, Hundred))
              /\ result.along_step
                    = Some(FMul(FDiv(F(1000, -3), Get(result.C_eff)),
                                Get(result.L)))
              /\ result.line_spacing
                    = Some(FDiv(Get(result.W), Get(result.C_eff)))

\* C1 witness: a speed was reported for a request whose coverage less the
\* margin lies below 100 %, and the effective coverage is 100 %.
C1_Witness ==
    /\ Succeeded
    /\ FLt(RequestedLessMargin, Hundred)
    /\ result.effective_coverage_pct = Hundred
    /\ result.speed_ms # None

\* C2: every calculation that reports speeds has
\* minimum <= optimum <= maximum, and minimum < optimum when optimum > 0.
C2_SpeedOrdering ==
    Succeeded =>
        /\ FLe(Get(result.v_min_ms), Get(result.v_opt_ms))
        /\ FLe(Get(result.v_opt_ms), Get(result.speed_ms))
        /\ FLe(Get(result.v_min_knots), Get(result.v_opt_knots))
        /\ FLe(Get(result.v_opt_knots), Get(result.speed_kts))
        /\ FLt(Zero, Get(result.v_opt_ms))
              => FLt(Get(result.v_min_ms), Get(result.v_opt_ms))

\* C3: when the order has a cubic-feature requirement, the detection check
\* reports a pass exactly when detectionLimit <= requirement x
\* bottomTypeFactor, and the warning otherwise.
C3_DetectionAgainstEffectiveRequirement ==
    (Succeeded /\ result.det_req # None) =>
        /\ result.detection \in {"pass", "warning"}
        /\ result.det_req_eff
              = Some(FMul(Get(result.det_req),
                          BOTTOM_TYPE_FACTORS[widgets.bottom_type]))
        /\ result.detection = "pass"
              <=> FLe(Get(result.det_limit), Get(result.det_req_eff))

\* C4: a request whose swath angle or transmit beam width lies outside
\* (0, 180) degrees (a swath of 180 degrees included), or whose depth or
\* sound speed is not positive, ends in an error and reports no speed.
C4_InvalidGeometryRejected ==
    ( /\ Calculated
      /\ \/ widgets.swath_deg <= 0 \/ widgets.swath_deg >= 1800
         \/ widgets.beam_width_deg <= 0 \/ widgets.beam_width_deg >= 1800
         \/ FLe(widgets.depth, Zero)
         \/ FLe(widgets.sound_speed, Zero) )
    => (result.outcome \in Errors /\ result.speed_ms = None)

\* C5: in both modes a derived maximum speed <= 0 ends in an error: no
\* calculation reports a maximum speed that is not positive.
C5_NonPositiveSpeedIsError ==
    Succeeded => FLt(Zero, Get(result.speed_ms))

\* C6: a request whose coverage lies below 100 % is rejected with the
\* coverage error; no speed is computed from a replaced coverage value.
C6_CoverageBelowFullRejected ==
    (Calculated /\ FLt(RequestedLessMargin, Hundred))
    => (result.outcome = "error_coverage" /\ result.speed_ms = None)

\* The primary result of a calculation: whether it succeeded, the speeds,
\* the line spacing and the overlap.
Primary(r) ==
    <<r.outcome = "success", r.speed_ms, r.speed_kts, r.v_opt_ms,
      r.v_opt_knots, r.v_min_ms, r.v_min_knots, r.line_spacing,
      r.overlap_pct>>

\* C7: the quality check never suppresses or changes the primary result:
\* every order with the same geometry and coverage inputs reports the same
\* speeds, line spacing and overlap, and an order with no detection rule is
\* reported as not applicable.
C7_QualityCheckIsAdvisory ==
    Calculated =>
        /\ \A o \in OrderNames, c \in CoverageValues :
              LET other == [widgets EXCEPT !.order_preset = o,
                                           !.custom_coverage = c]
              IN coverage_pct_user(other) = coverage_pct_user(widgets)
                    => Primary(Calc(other)) = Primary(result)
        /\ ( /\ Succeeded
             /\ widgets.order_preset
                   \in {"Order 1b", "Order 2",
                        "Custom (set coverage manually)"} )
              => result.detection = "not_applicable"

\* C8: in planner mode a non-positive area length, area width, daily hours,
\* line spacing or speed ends in an error: no plan is reported for one.
C8_PlannerInputsPositive ==
    (Succeeded /\ widgets.mode = "Survey planner") =>
        /\ FLt(Zero, widgets.area_length_m)
        /\ FLt(Zero, widgets.area_width_m)
        /\ FLt(Zero, widgets.daily_hours)
        /\ FLt(Zero, Get(result.line_spacing))
        /\ FLt(Zero, Get(result.speed_kts))

\* C9: the cubic-feature requirement depends on the order and the depth
\* only: 0.5 m for Exclusive Order, 1.0 m for Special Order, for Order 1a
\* 2.0 m up to 40 m of depth (40 m included) and 0.10 x depth beyond, and
\* none for Order 1b, Order 2 and the custom order.
C9_CubicFeatureRequirement ==
    Succeeded =>
        LET o == widgets.order_preset
        IN /\ o = "Exclusive Order" => result.det_req = Some(F(5000, -4))
           /\ o = "Special Order" => result.det_req = Some(F(1000, -3))
           /\ (o = "Order 1a" /\ FLe(widgets.depth, F(4000, -2)))
                 => result.det_req = Some(F(2000, -3))
           /\ (o = "Order 1a" /\ FLt(F(4000, -2), widgets.depth))
                 => result.det_req = Some(FMul(F(1000, -4), widgets.depth))
           /\ o \in {"Order 1b", "Order 2", "Custom (set coverage manually)"}
                 => result.det_req = None

\* C9 witness: Order 1a at exactly 40 m of depth reports the 2.0 m cube.
C9_Witness ==
    /\ Succeeded
    /\ widgets.order_preset = "Order 1a"
    /\ widgets.depth = F(4000, -2)
    /\ result.det_req = Some(F(2000, -3))

\* C10: in planner mode the fuel volume is reported exactly when the burn
\* rate is > 0 and is burn rate x weather-adjusted hours; the fuel cost is
\* reported exactly when burn rate and price are both > 0 and is
\* volume x price.
C10_FuelEstimate ==
    (Succeeded /\ widgets.mode = "Survey planner") =>
        LET burn  == widgets.fuel_burn_lph
            price == widgets.fuel_price
        IN /\ result.fuel_l # None <=> FLt(Zero, burn)
           /\ result.fuel_l # None
                 => result.fuel_l
                       = Some(FMul(burn, Get(result.survey_hours_weather)))
           /\ result.fuel_cost # None
                 <=> (FLt(Zero, burn) /\ FLt(Zero, price))
           /\ result.fuel_cost # None
                 => result.fuel_cost
                       = Some(FMul(Get(result.fuel_l), price))

\* C10 witness: a plan with a positive burn rate and a positive price
\* reports a fuel volume and a fuel cost.
C10_Witness ==
    /\ Succeeded
    /\ widgets.mode = "Survey planner"
    /\ FLt(Zero, widgets.fuel_burn_lph)
    /\ FLt(Zero, widgets.fuel_price)
    /\ result.fuel_l # None
    /\ result.fuel_cost # None

\* The exact comparison n x S >= aw for an integer n >= 0, a spacing S > 0
\* and a width aw >= 0, on the mantissas and without rounding.
SpansWidth(n, S, aw) ==
    LET k == aw.e - S.e
    IN IF aw.m = 0 THEN TRUE
       ELSE IF n = 0 THEN FALSE
       ELSE IF k < 0 THEN TRUE
       ELSE IF k > 5 THEN FALSE
       ELSE n * S.m >= aw.m * 10^k

PlannedWithSpacing ==
    /\ Succeeded
    /\ widgets.mode = "Survey planner"
    /\ FLt(Zero, Get(result.line_spacing))

C12_StepAndSpacingWithinFootprint ==
    (Succeeded /\ FLe(Hundred, result.effective_coverage_pct)) =>
        LET eff  == result.effective_coverage_pct
            L    == Get(result.L)
            W    == Get(result.W)
            d    == Get(result.along_step)
            S    == Get(result.line_spacing)
            ovl  == Get(result.overlap_pct)
            Half == F(5000, -4)
        IN /\ FLe(d, L)
           /\ FLe(S, W)
           /\ d = L <=> eff = Hundred
           /\ S = W <=> eff = Hundred
           /\ FLe(Zero, ovl) /\ FLt(ovl, Hundred)
           /\ eff = Hundred => ovl = Zero
           /\ eff = F(2000, -1) => (d = FMul(L, Half) /\ ovl = F(5000, -2))

====
